---------------------------- MODULE Spec2Model ----------------------------
(***************************************************************************)
(* cnncalc: per-layer output size, receptive field and jump of a stack of  *)
(* convolution / pooling layers (src/src/cnncalc/main.py).                 *)
(*                                                                         *)
(* Encoding.                                                               *)
(*  - A Python value that may be None, and a dictionary key that may be    *)
(*    absent, is a set with at most one element: {} is None / absent and   *)
(*    {v} is the value v.                                                  *)
(*  - A string whose characters matter (the layer type, which the code     *)
(*    lower-cases) is the tuple of its code points.                        *)
(*  - receptive_field_center is 0.5 plus an integer in every run; it is    *)
(*    held in units of one half, so 0.5 is 1 and -0.5 is -1.               *)
(*  - A padding value of a configuration record is either a string         *)
(*    ('same', 'valid') or an integer: PadStr / PadInt.                    *)
(*  - The display-only attributes (name, _padding) are left out.           *)
(***************************************************************************)
EXTENDS Integers, Sequences, FiniteSets, TLC

\* Bounds of the model.
MaxLayers == 2
MaxKernel == 3
MaxStride == 2
MaxPad == 1
MaxInput == 3

VARIABLES
    pc,             \* position of main: start, build, calculate, done, error
    error,          \* the exception that ended the run, or "none"
    config_len,     \* number of layer records of the loaded configuration
    loaded,         \* the record last handed to create_layer_from_config, as loaded
    config,         \* the same record after create_layer_from_config's aliasing
    layers,         \* the list of layer objects
    previous_layer, \* main's previous_layer, as an index into layers
    i,              \* index of the layer the loop of main is at
    calls           \* indices whose calculate() has been called, in call order

vars == <<pc, error, config_len, loaded, config, layers, previous_layer, i, calls>>

-----------------------------------------------------------------------------
\* Optional values.
None == {}

Some(v) == {v}

Val(o) == CHOOSE v \in o : TRUE

\* dict.get(key, default)
Get(o, default) == IF o = None THEN default ELSE Val(o)

Opt(S) == {None} \cup {Some(v) : v \in S}

\* Padding values of a configuration record.
PadStr(str) == [tag |-> "str", s |-> str, n |-> 0]

PadInt(n) == [tag |-> "int", s |-> "", n |-> n]

IsPadStr(v, str) == v.tag = "str" /\ v.s = str

\* Strings as code points.
StrConv == <<99, 111, 110, 118>>

StrPool == <<112, 111, 111, 108>>

StrConvCapital == <<67, 111, 110, 118>>

StrPoolUpper == <<80, 79, 79, 76>>

StrDense == <<100, 101, 110, 115, 101>>

\* str.lower() on ASCII text
Lower(str) == [j \in 1..Len(str) |-> IF str[j] \in 65..90 THEN str[j] + 32 ELSE str[j]]

-----------------------------------------------------------------------------
\* The layer classes.

\* Input.__init__
Input(size) ==
    [kind |-> "Input",
     output_size |-> size,
     receptive_field_size |-> Some(1),
     receptive_field_center |-> Some(1),
     jump |-> 1]

\* Mutant of ConvInit: 'same' resolved to (kernel - 1) // 2.
ConvInitSameRoundedDown(kind, kernel, stride, padding) ==
    [kind |-> kind,
     output_size |-> None,
     receptive_field_size |-> None,
     receptive_field_center |-> None,
     jump |-> 1,
     kernel |-> kernel,
     padding |-> IF IsPadStr(padding, "same") THEN (kernel - 1) \div 2
                 ELSE IF IsPadStr(padding, "valid") THEN 0
                 ELSE padding.n,
     stride |-> stride]

\* Conv.__init__ for an object of class kind; Layer.__init__ leaves the derived
\* attributes None and jump 1.
ConvInit(kind, kernel, stride, padding) ==
    [kind |-> kind,
     output_size |-> None,
     receptive_field_size |-> None,
     receptive_field_center |-> None,
     jump |-> 1,
     kernel |-> kernel,
     padding |-> IF IsPadStr(padding, "same") THEN kernel \div 2
                 ELSE IF IsPadStr(padding, "valid") THEN 0
                 ELSE padding.n,
     stride |-> stride]

\* Conv(kernel, stride=1, padding='same')
Conv(kernel, stride, padding) == ConvInit("Conv", kernel, stride, padding)

\* Mutant of Pool: the stride left at Conv's default of 1.
PoolUnitStride(size) == ConvInit("Pool", size, 1, PadStr("same"))

\* Pool.__init__: super().__init__(size, stride=size), padding left to Conv's default
Pool(size) == ConvInit("Pool", size, size, PadStr("same"))

\* Division that rounds toward zero.
TruncDiv(a, b) == IF a >= 0 THEN a \div b ELSE -((-a) \div b)

\* Mutant of calculate_output_size: the division rounds toward zero.
calculate_output_size_truncating(self, input_size) ==
    (self.kernel % 2) + TruncDiv(input_size + 2 * self.padding - self.kernel, self.stride)

\* Mutant of calculate_output_size: the textbook formula, + 1 for every kernel.
calculate_output_size_textbook(self, input_size) ==
    1 + ((input_size + 2 * self.padding - self.kernel) \div self.stride)

\* Conv.calculate_output_size: Python's // rounds toward negative infinity, as \div
calculate_output_size(self, input_size) ==
    (self.kernel % 2) + ((input_size + 2 * self.padding - self.kernel) \div self.stride)

\* Mutant of calculate_output_jump: the layer's own stride, not the product.
calculate_output_jump_own_stride(self, input_jump) == self.stride

\* Conv.calculate_output_jump
calculate_output_jump(self, input_jump) == input_jump * self.stride

\* Mutant of calculate_receptive_field_size: kernel in place of kernel - 1.
calculate_receptive_field_size_whole_kernel(self, input_receptive_field, input_jump) ==
    input_receptive_field + self.kernel * input_jump

\* Conv.calculate_receptive_field_size
calculate_receptive_field_size(self, input_receptive_field, input_jump) ==
    input_receptive_field + (self.kernel - 1) * input_jump

\* Conv.calculate_receptive_field_center, in halves
calculate_receptive_field_center(self, input_receptive_center, input_jump) ==
    input_receptive_center + 2 * (((self.kernel - 1) \div 2 - self.padding) * input_jump)

\* Mutant of calculate: the receptive field scaled by the layer's own new jump.
calculate_with_own_jump(self, input_layer) ==
    [self EXCEPT
        !.output_size = Some(calculate_output_size(self, Val(input_layer.output_size))),
        !.receptive_field_size =
            Some(calculate_receptive_field_size(
                    self, Val(input_layer.receptive_field_size),
                    calculate_output_jump(self, input_layer.jump))),
        !.receptive_field_center =
            Some(calculate_receptive_field_center(
                    self, Val(input_layer.receptive_field_center),
                    calculate_output_jump(self, input_layer.jump))),
        !.jump = calculate_output_jump(self, input_layer.jump)]

\* Conv.calculate: the layer after self.calculate(input_layer); the caller has
\* checked that input_layer's attributes are not None
calculate(self, input_layer) ==
    [self EXCEPT
        !.output_size = Some(calculate_output_size(self, Val(input_layer.output_size))),
        !.receptive_field_size =
            Some(calculate_receptive_field_size(
                    self, Val(input_layer.receptive_field_size), input_layer.jump)),
        !.receptive_field_center =
            Some(calculate_receptive_field_center(
                    self, Val(input_layer.receptive_field_center), input_layer.jump)),
        !.jump = calculate_output_jump(self, input_layer.jump)]

-----------------------------------------------------------------------------
\* Configuration records.

Kernels == 1..MaxKernel

Strides == 1..MaxStride

Paddings == {PadStr("same"), PadStr("valid")} \cup {PadInt(n) : n \in 0..MaxPad}

\* The paddings of the chains: 'valid' builds the same layer as 0
ChainPaddings == {PadStr("same")} \cup {PadInt(n) : n \in 0..MaxPad}

Sizes == 0..MaxInput

Record(type, kernel_size, kernel, k, stride, s, padding, p) ==
    [type |-> type, kernel_size |-> kernel_size, kernel |-> kernel, k |-> k,
     stride |-> stride, s |-> s, padding |-> padding, p |-> p]

\* Records that use the full keys only.
FullKeyRecords ==
    {Record(Some(StrConv), ks, None, None, Some(st), None, Some(pd), None) :
        ks \in Opt(Kernels), st \in Strides, pd \in ChainPaddings}
    \cup {Record(Some(type), Some(ks), None, None, None, None, None, None) :
        type \in {StrPool, StrDense}, ks \in Kernels}

\* Records with every combination of keys.
AllRecords ==
    {Record(type, ks, kn, k, st, s, pd, p) :
        type \in Opt({StrConv, StrConvCapital, StrPool, StrPoolUpper, StrDense}),
        ks \in Opt(Kernels), kn \in Opt(Kernels), k \in Opt(Kernels),
        st \in Opt(Strides), s \in Opt(Strides),
        pd \in Opt(Paddings), p \in Opt(Paddings)}

\* Mutant of AliasKernel: the abbreviations win over kernel_size.
AliasKernelShortestFirst(cfg) ==
    IF cfg.k # None THEN [cfg EXCEPT !.kernel_size = cfg.k]
    ELSE IF cfg.kernel # None THEN [cfg EXCEPT !.kernel_size = cfg.kernel]
    ELSE cfg

\* create_layer_from_config, lines 97-102: the shortcuts for kernel_size
AliasKernel(cfg) ==
    IF cfg.kernel_size # None THEN cfg
    ELSE IF cfg.kernel # None THEN [cfg EXCEPT !.kernel_size = cfg.kernel]
    ELSE IF cfg.k # None THEN [cfg EXCEPT !.kernel_size = cfg.k]
    ELSE cfg

\* create_layer_from_config, lines 105-106: the shortcut for stride
AliasStride(cfg) ==
    IF cfg.stride = None /\ cfg.s # None THEN [cfg EXCEPT !.stride = cfg.s] ELSE cfg

\* create_layer_from_config, lines 109-110: the shortcut for padding
AliasPadding(cfg) ==
    IF cfg.padding = None /\ cfg.p # None THEN [cfg EXCEPT !.padding = cfg.p] ELSE cfg

\* config.get('type', 'conv').lower()
LayerType(cfg) == Lower(Get(cfg.type, StrConv))

\* Mutant of BuildLayer: every type that is not pool builds a Conv.
BuildLayerConvByDefault(layer_type, cfg) ==
    IF cfg.kernel_size = None THEN [error |-> "KeyError", layer |-> None]
    ELSE IF layer_type = StrPool
    THEN [error |-> "none", layer |-> Some(Pool(Val(cfg.kernel_size)))]
    ELSE [error |-> "none",
          layer |-> Some(Conv(Val(cfg.kernel_size),
                              Get(cfg.stride, 1),
                              Get(cfg.padding, PadStr("same"))))]

\* create_layer_from_config, lines 112-121: the layer built from the aliased
\* record, or the exception raised
BuildLayer(layer_type, cfg) ==
    IF layer_type = StrConv THEN
        IF cfg.kernel_size = None THEN [error |-> "KeyError", layer |-> None]
        ELSE [error |-> "none",
              layer |-> Some(Conv(Val(cfg.kernel_size),
                                  Get(cfg.stride, 1),
                                  Get(cfg.padding, PadStr("same"))))]
    ELSE IF layer_type = StrPool THEN
        IF cfg.kernel_size = None THEN [error |-> "KeyError", layer |-> None]
        ELSE [error |-> "none", layer |-> Some(Pool(Val(cfg.kernel_size)))]
    ELSE [error |-> "UnboundLocalError", layer |-> None]

\* create_layer_from_config: the record as it leaves the function, and the result
create_layer_from_config(rec) ==
    LET cfg == AliasPadding(AliasStride(AliasKernel(rec)))
        built == BuildLayer(LayerType(rec), cfg)
    IN  [config |-> cfg, error |-> built.error, layer |-> built.layer]

-----------------------------------------------------------------------------
\* main

Init ==
    /\ pc = "start"
    /\ error = "none"
    /\ config_len = 0
    /\ loaded = None
    /\ config = None
    /\ layers = <<>>
    /\ previous_layer = 0
    /\ i = 0
    /\ calls = <<>>

\* main, line 40: a configuration that is an empty list or an empty mapping is
\* falsy, and nothing is built
MainEmptyConfig ==
    /\ pc = "start"
    /\ pc' = "done"
    /\ UNCHANGED <<error, config_len, loaded, config, layers, previous_layer, i, calls>>

\* build_layers_from_config, lines 82-86: the Input layer. The configuration is
\* a list of n records (is_list) or a mapping with an optional input_size and
\* an optional list of n records under 'layers'; arg is --input-size.
BuildInput(sizes, lengths) ==
    /\ pc = "start"
    /\ \E is_list \in BOOLEAN, has_size \in BOOLEAN, has_layers \in BOOLEAN,
          size \in sizes, arg \in sizes, n \in lengths :
          /\ IF is_list THEN n > 0 ELSE has_size \/ has_layers
          /\ layers' = <<Input(IF is_list \/ ~has_size THEN arg ELSE size)>>
          /\ config_len' = IF is_list \/ has_layers THEN n ELSE 0
    /\ pc' = "build"
    /\ UNCHANGED <<error, loaded, config, previous_layer, i, calls>>

\* build_layers_from_config, line 88: the next record of the configuration goes
\* through create_layer_from_config
CreateLayer(records) ==
    /\ pc = "build"
    /\ Len(layers) - 1 < config_len
    /\ \E rec \in records :
          LET r == create_layer_from_config(rec) IN
          /\ loaded' = Some(rec)
          /\ config' = Some(r.config)
          /\ IF r.error = "none"
             THEN /\ layers' = Append(layers, Val(r.layer))
                  /\ UNCHANGED <<pc, error>>
             ELSE /\ pc' = "error"
                  /\ error' = r.error
                  /\ UNCHANGED layers
    /\ UNCHANGED <<config_len, previous_layer, i, calls>>

\* build_layers_from_config returns; main, line 47: previous_layer = layers[0]
BuildDone ==
    /\ pc = "build"
    /\ Len(layers) - 1 = config_len
    /\ pc' = "calculate"
    /\ previous_layer' = 1
    /\ i' = 2
    /\ UNCHANGED <<error, config_len, loaded, config, layers, calls>>

\* Mutant of Calculate: previous_layer is never advanced (line 50 left out).
CalculateStalePrevious ==
    /\ pc = "calculate"
    /\ i <= Len(layers)
    /\ calls' = Append(calls, i)
    /\ IF layers[previous_layer].output_size = None
       THEN /\ pc' = "error"
            /\ error' = "TypeError"
            /\ UNCHANGED <<layers, i>>
       ELSE /\ layers' = [layers EXCEPT ![i] = calculate(layers[i], layers[previous_layer])]
            /\ i' = i + 1
            /\ UNCHANGED <<pc, error>>
    /\ UNCHANGED <<config_len, loaded, config, previous_layer>>

\* main, lines 48-50: one turn of the loop. With an Input layer of size None the
\* first calculate raises TypeError before it assigns anything.
Calculate ==
    /\ pc = "calculate"
    /\ i <= Len(layers)
    /\ calls' = Append(calls, i)
    /\ IF layers[previous_layer].output_size = None
       THEN /\ pc' = "error"
            /\ error' = "TypeError"
            /\ UNCHANGED <<layers, previous_layer, i>>
       ELSE /\ layers' = [layers EXCEPT ![i] = calculate(layers[i], layers[previous_layer])]
            /\ previous_layer' = i
            /\ i' = i + 1
            /\ UNCHANGED <<pc, error>>
    /\ UNCHANGED <<config_len, loaded, config>>

\* main, line 52: the loop is over and the table is printed
Finish ==
    /\ pc = "calculate"
    /\ i > Len(layers)
    /\ pc' = "done"
    /\ UNCHANGED <<error, config_len, loaded, config, layers, previous_layer, i, calls>>

\* Chains of up to MaxLayers layers given with the full keys.
Next ==
    \/ MainEmptyConfig
    \/ BuildInput(Opt(Sizes), 0..MaxLayers)
    \/ CreateLayer(FullKeyRecords)
    \/ BuildDone
    \/ Calculate
    \/ Finish

Spec == Init /\ [][Next]_vars

\* One layer record with any combination of keys, on an input of MaxInput.
NextConfig ==
    \/ MainEmptyConfig
    \/ BuildInput({Some(MaxInput)}, {0, 1})
    \/ CreateLayer(AllRecords)
    \/ BuildDone
    \/ Calculate
    \/ Finish

SpecConfig == Init /\ [][NextConfig]_vars

-----------------------------------------------------------------------------
\* Vocabulary of the properties.

\* The four derived attributes of a layer.
Derived(l) == <<l.output_size, l.receptive_field_size, l.receptive_field_center, l.jump>>

\* Layer j has been transformed: the loop of main has passed it.
Computed(j) == j >= 2 /\ j < i /\ j <= Len(layers)

\* The numerator of the output size formula at layer j.
Numerator(j) ==
    Val(layers[j - 1].output_size) + 2 * layers[j].padding - layers[j].kernel

RECURSIVE StrideProduct(_)
\* The product of the strides of layers 2..j (1 for the Input layer).
StrideProduct(j) == IF j <= 1 THEN 1 ELSE layers[j].stride * StrideProduct(j - 1)

\* Layer j is a Conv with kernel = 1, stride = 1, padding = 0.
IsIdentityConv(j) ==
    /\ layers[j].kind = "Conv"
    /\ layers[j].kernel = 1
    /\ layers[j].stride = 1
    /\ layers[j].padding = 0

\* Layer j is a Conv with stride 1 and the padding 'same' resolves to.
IsSameConv(j) ==
    /\ layers[j].kind = "Conv"
    /\ layers[j].stride = 1
    /\ layers[j].padding = layers[j].kernel \div 2

\* The run has finished evaluating a chain of n layers after the Input layer.
Evaluated(n) == pc = "done" /\ Len(layers) = n + 1

-----------------------------------------------------------------------------
\* C1: chain evaluation is a strict left-to-right fold. Every layer after the
\* Input layer is transformed exactly once, in increasing order, against the
\* layer right before it, whose own attributes are already computed; at the
\* end every layer's four attributes are the transform of the final state of
\* its immediate predecessor.
C1_LeftToRightFold ==
    /\ calls = [j \in 1..Len(calls) |-> j + 1]
    /\ pc = "calculate" => /\ previous_layer = i - 1
                           /\ Len(calls) = i - 2
                           /\ previous_layer = 1 \/ Computed(previous_layer)
    /\ pc = "done" /\ layers # <<>> =>
          /\ Len(calls) = Len(layers) - 1
          /\ \A j \in 2..Len(layers) :
                Derived(layers[j]) = Derived(calculate(layers[j], layers[j - 1]))

\* A chain of MaxLayers layers has been evaluated, and the last layer's
\* attributes differ from what the Input layer as predecessor would give.
C1_Witness ==
    /\ Evaluated(MaxLayers)
    /\ MaxLayers >= 2
    /\ Derived(layers[Len(layers)]) # Derived(calculate(layers[Len(layers)], layers[1]))

\* C2: output_size = (kernel mod 2) + floor((predecessor.output_size
\* + 2*padding - kernel) / stride), the floor rounding toward negative
\* infinity: with q the output size less the parity term,
\* q * stride <= numerator < (q + 1) * stride.
C2_OutputSize ==
    \A j \in 1..Len(layers) : Computed(j) =>
        LET l == layers[j]
            q == Val(l.output_size) - (IF l.kernel % 2 = 1 THEN 1 ELSE 0)
        IN  /\ q * l.stride <= Numerator(j)
            /\ Numerator(j) < (q + 1) * l.stride

\* A transformed layer whose numerator is negative and not a multiple of its stride.
C2_Witness ==
    \E j \in 1..Len(layers) :
        /\ Computed(j)
        /\ Numerator(j) < 0
        /\ Numerator(j) % layers[j].stride # 0

\* C3: the receptive field is derived from the predecessor's values scaled by
\* the predecessor's jump: size = predecessor size + (kernel - 1) * predecessor
\* jump, center = predecessor center + (floor((kernel - 1) / 2) - padding) *
\* predecessor jump (the center in halves).
C3_ReceptiveField ==
    \A j \in 1..Len(layers) : Computed(j) =>
        LET l == layers[j]
            p == layers[j - 1]
        IN  /\ Val(l.receptive_field_size) =
                  Val(p.receptive_field_size) + (l.kernel - 1) * p.jump
            /\ Val(l.receptive_field_center) =
                  Val(p.receptive_field_center)
                    + 2 * ((l.kernel - 1) \div 2 - l.padding) * p.jump

\* A transformed layer with stride > 1 and kernel > 2 atop a predecessor of jump > 1:
\* its own jump and its predecessor's give different receptive fields.
C3_Witness ==
    \E j \in 1..Len(layers) :
        /\ Computed(j)
        /\ layers[j - 1].jump > 1
        /\ layers[j].stride > 1
        /\ layers[j].kernel > 2
        /\ (layers[j].kernel - 1) \div 2 # layers[j].padding

\* C4: each layer's jump is the product of the strides of the layers up to and
\* including it (1 for the Input layer), hence at least 1.
C4_JumpIsStrideProduct ==
    \A j \in 1..Len(layers) : (j = 1 \/ Computed(j)) =>
        /\ layers[j].jump = StrideProduct(j)
        /\ layers[j].jump >= 1

\* An evaluated chain of MaxLayers layers, every stride above 1.
C4_Witness ==
    /\ Evaluated(MaxLayers)
    /\ \A j \in 2..Len(layers) : layers[j].stride > 1
    /\ layers[Len(layers)].jump > layers[Len(layers)].stride

\* The output size of the Conv layer that differs from layer j only in its
\* kernel, which is one larger.
NextKernelOutputSize(j) ==
    calculate_output_size(
        Conv(layers[j].kernel + 1, layers[j].stride, PadInt(layers[j].padding)),
        Val(layers[j - 1].output_size))

\* C5 as stated: a Conv layer with an even kernel has an output size exactly one
\* less than the Conv layer with the odd kernel one smaller and the same stride,
\* padding and predecessor.
C5_Original ==
    \A j \in 1..Len(layers) :
        Computed(j) /\ layers[j].kind = "Conv" /\ layers[j].kernel % 2 = 1 =>
            NextKernelOutputSize(j) = Val(layers[j].output_size) - 1

\* C5, amended: with odd kernel k and even kernel k + 1 and the same stride,
\* integer padding and predecessor, the even-kernel layer's output size is two
\* less than the odd-kernel layer's when the stride divides predecessor
\* output_size + 2*padding - k (always, for stride 1), and one less otherwise.
C5_Amended ==
    \A j \in 1..Len(layers) :
        Computed(j) /\ layers[j].kind = "Conv" /\ layers[j].kernel % 2 = 1 =>
            NextKernelOutputSize(j) =
                Val(layers[j].output_size)
                    - (IF Numerator(j) % layers[j].stride = 0 THEN 2 ELSE 1)

\* Two transformed odd-kernel Conv layers: one whose even-kernel sibling is one
\* smaller, one whose sibling is two smaller.
C5_Witness ==
    /\ \E j \in 1..Len(layers) :
          /\ Computed(j) /\ layers[j].kind = "Conv" /\ layers[j].kernel % 2 = 1
          /\ NextKernelOutputSize(j) = Val(layers[j].output_size) - 1
    /\ \E j \in 1..Len(layers) :
          /\ Computed(j) /\ layers[j].kind = "Conv" /\ layers[j].kernel % 2 = 1
          /\ NextKernelOutputSize(j) = Val(layers[j].output_size) - 2

\* C6: identity convolutions are no-ops. In a chain of an Input layer of size N
\* and Conv layers with kernel = 1, stride = 1, padding = 0, every transformed
\* layer has output_size N, receptive_field_size 1, receptive_field_center 0.5
\* and jump 1, as the Input layer has.
C6_IdentityConv ==
    (/\ layers # <<>>
     /\ \A j \in 2..Len(layers) : IsIdentityConv(j)) =>
        /\ Derived(layers[1]) = <<layers[1].output_size, Some(1), Some(1), 1>>
        /\ \A j \in 2..Len(layers) : Computed(j) =>
              /\ layers[j].output_size # None
              /\ Derived(layers[j]) = <<layers[1].output_size, Some(1), Some(1), 1>>

\* An evaluated chain of MaxLayers identity convolutions on a positive input size.
C6_Witness ==
    /\ Evaluated(MaxLayers)
    /\ \A j \in 2..Len(layers) : IsIdentityConv(j) /\ Computed(j)
    /\ layers[1].output_size # None
    /\ Val(layers[1].output_size) > 0

\* C7: Pool(size) is a preset of Conv. A Pool layer has kernel = size, stride =
\* size and padding = size // 2, and its transform yields the four attributes
\* that Conv(kernel=size, stride=size, padding='same') yields on the same
\* predecessor.
C7_PoolIsConvPreset ==
    /\ \A j \in 1..Len(layers) : layers[j].kind = "Pool" =>
          LET l == layers[j]
              c == Conv(l.kernel, l.kernel, PadStr("same"))
          IN  /\ l.stride = l.kernel
              /\ l.padding = l.kernel \div 2
              /\ <<l.kernel, l.stride, l.padding>> = <<c.kernel, c.stride, c.padding>>
              /\ Computed(j) => Derived(l) = Derived(calculate(c, layers[j - 1]))
    /\ (/\ pc = "build"
        /\ loaded # None
        /\ LayerType(Val(loaded)) = StrPool) =>
          /\ layers[Len(layers)].kind = "Pool"
          /\ layers[Len(layers)].kernel = Val(Val(config).kernel_size)

\* A transformed Pool layer of size above 1 atop a layer of jump above 1.
C7_Witness ==
    \E j \in 1..Len(layers) :
        /\ Computed(j)
        /\ layers[j].kind = "Pool"
        /\ layers[j].kernel > 1
        /\ layers[j - 1].jump > 1

\* The kernel, stride and padding a record resolves to, by precedence.
ResolvedKernel(rec) ==
    IF rec.kernel_size # None THEN rec.kernel_size
    ELSE IF rec.kernel # None THEN rec.kernel
    ELSE rec.k

ResolvedStride(rec) ==
    IF rec.stride # None THEN Val(rec.stride)
    ELSE IF rec.s # None THEN Val(rec.s)
    ELSE 1

ResolvedPadding(rec) ==
    IF rec.padding # None THEN Val(rec.padding)
    ELSE IF rec.p # None THEN Val(rec.p)
    ELSE PadStr("same")

\* C8: key resolution gives a full key precedence over its abbreviations for
\* every combination of keys: the kernel is kernel_size if present, else
\* kernel, else k; the stride is stride, else s, else 1; the padding is
\* padding, else p, else 'same'. The record holds these values after the
\* resolution, and the Conv layer built from it has them (a Pool layer takes
\* only the kernel).
C8_KeyPrecedence ==
    loaded # None =>
        LET rec == Val(loaded)
            cfg == Val(config)
            pad == ResolvedPadding(rec)
        IN  /\ cfg.kernel_size = ResolvedKernel(rec)
            /\ Get(cfg.stride, 1) = ResolvedStride(rec)
            /\ Get(cfg.padding, PadStr("same")) = pad
            /\ error = "none" =>
                  LET l == layers[Len(layers)] IN
                  /\ l.kernel = Val(ResolvedKernel(rec))
                  /\ l.kind = "Conv" =>
                        /\ l.stride = ResolvedStride(rec)
                        /\ l.padding = IF IsPadStr(pad, "same") THEN l.kernel \div 2
                                       ELSE IF IsPadStr(pad, "valid") THEN 0
                                       ELSE pad.n

\* A Conv layer built from a record where every full key and every
\* abbreviation is present, the full keys with other values.
C8_Witness ==
    /\ loaded # None
    /\ error = "none"
    /\ layers[Len(layers)].kind = "Conv"
    /\ LET rec == Val(loaded) IN
       /\ rec.kernel_size = Some(MaxKernel) /\ rec.kernel = Some(2) /\ rec.k = Some(1)
       /\ rec.stride = Some(MaxStride) /\ rec.s = Some(1)
       /\ rec.padding = Some(PadInt(0)) /\ rec.p = Some(PadStr("same"))
    /\ layers[Len(layers)].kernel = MaxKernel

\* C9: a record whose type, lower-cased, is neither conv nor pool makes layer
\* creation fail with an error; no layer is created for it, and no chain is
\* evaluated with the record missing or replaced.
C9_UnknownTypeFails ==
    /\ (loaded # None /\ LayerType(Val(loaded)) \notin {StrConv, StrPool}) =>
          /\ pc = "error"
          /\ error = "UnboundLocalError"
          /\ Len(layers) - 1 < config_len
          /\ calls = <<>>
    /\ (pc \in {"calculate", "done"} /\ layers # <<>>) =>
          /\ Len(layers) = config_len + 1
          /\ loaded # None => LayerType(Val(loaded)) \in {StrConv, StrPool}

\* The run ended in the error on a record of type dense that has a kernel.
C9_Witness ==
    /\ pc = "error"
    /\ loaded # None
    /\ Val(loaded).type = Some(StrDense)
    /\ Val(loaded).kernel_size # None

\* C10: padding 'same' resolves to kernel // 2, and a Conv layer with that
\* padding and stride 1 has exactly its predecessor's output_size, for a
\* kernel of either parity; a chain of such layers keeps the input size at
\* every layer.
C10_SamePaddingKeepsSize ==
    /\ (/\ pc = "build"
        /\ loaded # None
        /\ LayerType(Val(loaded)) = StrConv
        /\ Get(Val(config).padding, PadStr("same")) = PadStr("same")) =>
          layers[Len(layers)].padding = layers[Len(layers)].kernel \div 2
    /\ \A j \in 1..Len(layers) : Computed(j) /\ IsSameConv(j) =>
          layers[j].output_size = layers[j - 1].output_size
    /\ (layers # <<>> /\ \A j \in 2..Len(layers) : IsSameConv(j)) =>
          \A j \in 2..Len(layers) : Computed(j) =>
              layers[j].output_size = layers[1].output_size

\* An evaluated chain of MaxLayers stride-1 'same' Conv layers with an even and
\* an odd kernel above 1.
C10_Witness ==
    /\ Evaluated(MaxLayers)
    /\ \A j \in 2..Len(layers) : IsSameConv(j) /\ Computed(j)
    /\ \E j \in 2..Len(layers) : layers[j].kernel > 1 /\ layers[j].kernel % 2 = 0
    /\ \E j \in 2..Len(layers) : layers[j].kernel > 1 /\ layers[j].kernel % 2 = 1

=============================================================================
